---- MODULE Spec2Model ----
(***************************************************************************)
(* Model of script/extract.py, the feature-extraction script written by    *)
(* 01-aml-walkthrough/99-archive/feature_engineering_keras.ipynb:          *)
(* the ImageGenerator batching class and the create_bottleneck_features    *)
(* pipeline that feeds it to the featurizer and saves the result.          *)
(*                                                                         *)
(* The class is exercised in two ways: by the script (main), which builds  *)
(* it with its default arguments, and by a direct caller that passes any   *)
(* batch size and optional preprocessing function and then calls           *)
(* __len__, __getitem__ and get_labels.                                    *)
(***************************************************************************)
EXTENDS Integers, Sequences, FiniteSets, Bags, TLC

\* ------------------------------------------------------------------ bounds

\* Largest number of directory entries spread over the six class folders
\* (on top of the bulk entries below).
MaxFiles == 3

\* Largest batch size a direct caller passes (the default is passed too).
MaxBatch == 3

\* Shuffle seeds are 0..MaxSeed; 0..5 yield every order of up to 3 samples.
MaxSeed == 5

\* ------------------------------------------------------- program constants

\* def __init__(self, img_dir, preprocess_fn=None, batch_size=64)
DefaultBatchSize == 64

\* tf.app.flags.DEFINE_integer('batch_size', 64, ...)
FlagDefaultBatchSize == 64

\* The folders of the dictionary, in the order of its literal.
folders == <<"Barren", "Cultivated", "Developed", "Forest", "Herbaceous", "Shrub">>

\* A folder of the input directory that is no class of the dictionary.
OtherFolder == "Other"

AllFolders == {folders[i] : i \in 1..Len(folders)} \cup {OtherFolder}

label_map_off_by_one(folder) ==
    CASE folder = "Barren" -> 1
      [] folder = "Cultivated" -> 2
      [] folder = "Developed" -> 3
      [] folder = "Forest" -> 4
      [] folder = "Herbaceous" -> 5
      [] folder = "Shrub" -> 6

\* label_map: class name -> numeric label.
label_map(folder) ==
    CASE folder = "Barren" -> 0
      [] folder = "Cultivated" -> 1
      [] folder = "Developed" -> 2
      [] folder = "Forest" -> 3
      [] folder = "Herbaceous" -> 4
      [] folder = "Shrub" -> 5

\* The names preprocess_fn can be bound to: None, or a function on batches.
None == "None"
preprocess_input == "preprocess_input"

\* ----------------------------------------------------------------- helpers

Min(a, b) == IF a < b THEN a ELSE b

RECURSIVE SumCounts(_, _)
SumCounts(d, i) == IF i = 0 THEN 0 ELSE d[folders[i]] + SumCounts(d, i - 1)

\* os.listdir(os.path.join(img_dir, folder)): the entries of a folder,
\* named 1..count.
listdir(d, folder) == [k \in 1..d[folder] |-> k]

\* os.path.join(img_dir, folder, image)
path_join(folder, image) == <<folder, image>>

RECURSIVE LabeledFrom(_, _)
LabeledFrom(d, i) ==
    IF i > Len(folders) THEN <<>>
    ELSE LET folder == folders[i]
             entries == listdir(d, folder)
         IN [k \in 1..Len(entries) |->
                <<path_join(folder, entries[k]), label_map(folder)>>]
            \o LabeledFrom(d, i + 1)

\* The comprehension that lists every image of every class folder with its
\* numeric label.
labeled_image_list(d) == LabeledFrom(d, 1)

\* ---------------------------------------------------------------- shuffle

\* q div (k * (k+1) * ... * i), one division at a time.
RECURSIVE SeedQuot(_, _, _)
SeedQuot(q, k, i) ==
    IF k > i \/ q = 0 THEN q ELSE SeedQuot(q \div k, k + 1, i)

\* The draw j in 0..i made for position i (0-based) under a seed: the digit
\* of weight i! of the seed, so that the seeds 0..(n! - 1) give every
\* sequence of draws for n elements.
randbelow(seed, i) == SeedQuot(seed, 1, i) % (i + 1)

Swap(x, a, b) == [x EXCEPT ![a] = x[b], ![b] = x[a]]

\* The iterations i = hi, hi - 1, .., lo of the loop of random.shuffle, each
\* swapping x[i] with x[j] for a draw j in 0..i. The range is split in two
\* to keep the evaluation shallow; the test on the lengths, which always
\* holds, has the upper half computed before the lower half starts.
RECURSIVE ShuffleSteps(_, _, _, _)
ShuffleSteps(x, seed, hi, lo) ==
    IF hi < lo THEN x
    ELSE IF hi = lo THEN Swap(x, hi + 1, randbelow(seed, hi) + 1)
    ELSE LET mid == (hi + lo) \div 2
             upper == ShuffleSteps(x, seed, hi, mid + 1)
         IN IF Len(upper) = Len(x) THEN ShuffleSteps(upper, seed, mid, lo) ELSE upper

shuffle_drop_last(x, seed) ==
    IF Len(x) > 1
    THEN SubSeq(ShuffleSteps(x, seed, Len(x) - 1, 1), 1, Len(x) - 1)
    ELSE x

\* random.shuffle(x): for i in reversed(range(1, len(x))), swap x[i] with
\* x[j], j drawn from 0..i.
shuffle(x, seed) == ShuffleSteps(x, seed, Len(x) - 1, 1)

\* ------------------------------------------------------------- constructor

zip_star_independent(pairs) ==
    IF Len(pairs) = 0 THEN <<>>
    ELSE << [i \in 1..Len(pairs) |-> pairs[i][1]],
            [i \in 1..Len(pairs) |-> pairs[Len(pairs) + 1 - i][2]] >>

\* zip(*pairs): the tuple of columns; no column at all for an empty list.
zip_star(pairs) ==
    IF Len(pairs) = 0 THEN <<>>
    ELSE << [i \in 1..Len(pairs) |-> pairs[i][1]],
            [i \in 1..Len(pairs) |-> pairs[i][2]] >>

n_batches_floor(n, b) == n \div b

n_batches_always_extra(n, b) == (n \div b) + 1

\* n_batches = len(image_list) // batch_size, plus one on a remainder.
compute_n_batches(n, b) ==
    IF n % b > 0 THEN (n \div b) + 1 ELSE n \div b

\* ------------------------------------------------------------ __getitem__

\* seq[lo:hi] for 0 <= lo, hi: both ends are clamped to the length.
Slice(seq, lo, hi) == SubSeq(seq, Min(lo, Len(seq)) + 1, Min(hi, Len(seq)))

batch_paths_overlap(list, b, index) == Slice(list, index * b, (index + 1) * b + 1)

\* image_list[index*batch_size:(index+1)*batch_size]
batch_paths(list, b, index) == Slice(list, index * b, (index + 1) * b)

\* image.img_to_array(image.load_img(pathname, ...)): the decoded image of a
\* file; pre counts the preprocessing passes it went through.
load_img(pathname) == [src |-> pathname, pre |-> 0]

\* What a preprocessing function returns for a batch array.
apply_fn(fn, images) ==
    [i \in 1..Len(images) |-> [images[i] EXCEPT !.pre = @ + 1]]

\* np.asarray of the images decoded from the pathnames.
decode_all(pathnames) == [i \in 1..Len(pathnames) |-> load_img(pathnames[i])]

load_images_per_image(pathnames, fn) ==
    LET decoded == decode_all(pathnames)
    IN IF fn /= None
       THEN [calls |-> [i \in 1..Len(decoded) |-> <<decoded[i]>>],
             images |-> apply_fn(fn, decoded), loaded |-> pathnames]
       ELSE [calls |-> <<>>, images |-> decoded, loaded |-> pathnames]

\* __load_images: the batch array returned, the arguments of the calls made
\* to preprocess_fn on the way, and the files load_img was called on.
load_images(pathnames, fn) ==
    LET decoded == decode_all(pathnames)
    IN IF fn /= None
       THEN [calls |-> <<decoded>>, images |-> apply_fn(fn, decoded),
             loaded |-> pathnames]
       ELSE [calls |-> <<>>, images |-> decoded, loaded |-> pathnames]

\* ---------------------------------------------------------------- failures

\* os.listdir raises FileNotFoundError for a class folder that is gone.
listdir_fails(gone) == \E i \in 1..Len(folders) : folders[i] \in gone

load_fails_never(pathnames, bad) == FALSE

\* image.load_img raises for a file that cannot be decoded.
load_fails(pathnames, bad) == \E i \in 1..Len(pathnames) : pathnames[i] \in bad

\* The files load_img is called on before the loop of __load_images is left
\* by the exception: all up to the first that cannot be decoded.
loaded_until_failure(pathnames, bad) ==
    LET first == CHOOSE i \in 1..Len(pathnames) :
                    /\ pathnames[i] \in bad
                    /\ \A j \in 1..(i - 1) : pathnames[j] \notin bad
    IN SubSeq(pathnames, 1, first)

\* ------------------------------------------------------------- featurizer

\* The featurizer's output for a batch array: one row per image.
predict_on_batch(images) == [i \in 1..Len(images) |-> [feature_of |-> images[i]]]

RECURSIVE concatenate(_)
concatenate(outs) ==
    IF Len(outs) = 0 THEN <<>> ELSE Head(outs) \o concatenate(Tail(outs))

\* ------------------------------------------------------------------ inputs

\* The folder that holds the bulk entries of a large input directory.
BulkFolder == "Forest"

\* A large input directory holds one entry less than a default batch in its
\* bulk folder, so that the entries of the other folders fill the first
\* batch and start a second one.
BulkCounts == {0, DefaultBatchSize - 1}

ClassFolders == {folders[i] : i \in 1..Len(folders)}

SmallDirs ==
    {d \in [ClassFolders -> 0..MaxFiles] : SumCounts(d, Len(folders)) <= MaxFiles}

DirOf(base, bulk) ==
    [f \in AllFolders |->
        IF f = OtherFolder THEN 1
        ELSE IF f = BulkFolder THEN base[f] + bulk
        ELSE base[f]]

\* The input directories of the script: how many entries each folder holds.
Dirs == {DirOf(base, bulk) : base \in SmallDirs, bulk \in BulkCounts}

\* The input directories a direct caller of the class passes.
ClassDirs == {DirOf(base, 0) : base \in SmallDirs}

\* The batch sizes a direct caller passes.
BatchSizes == (1..MaxBatch) \cup {DefaultBatchSize}

\* The values the batch_size flag is given on the command line.
FlagValues == (1..MaxBatch) \cup {FlagDefaultBatchSize}

Seeds == 0..MaxSeed

NoFault == [missing |-> {}, undecodable |-> {}]

\* What can be wrong with the input directory: nothing, a class folder that
\* does not exist, or an entry that is no image.
Faults ==
    {NoFault,
     [missing |-> {"Shrub"}, undecodable |-> {}],
     [missing |-> {}, undecodable |-> {<<"Forest", 1>>}]}

NoFile == [exists |-> FALSE, open |-> FALSE, names |-> <<>>, features |-> <<>>, labels |-> <<>>]
NoCall == [call |-> "none"]

\* ------------------------------------------------------------------- state

VARIABLES
    dir,              \* the input directory: folder -> number of entries
    fault,            \* what is wrong with the input directory
    mode,             \* "none", "script" (main runs) or "direct" (a caller uses the class)
    pc,               \* position of the run
    error,            \* the exception that ended the run, or "none"
    FLAGS_batch_size, \* FLAGS.batch_size
    output_data_dir,  \* whether the output directory exists
    image_list,       \* self.image_list
    label_list,       \* self.label_list
    batch_size,       \* self.batch_size
    preprocess_fn,    \* self.preprocess_fn
    n_batches,        \* self.n_batches
    num_classes,      \* self.num_classes
    ret,              \* the last call of a direct caller and what it returned
    fn_calls,         \* the arguments preprocess_fn was called with in the last __getitem__
    img_loads,        \* the files load_img was called on in the last call
    steps_done,       \* predict_generator: batches consumed
    all_outs,         \* predict_generator: outputs of the batches consumed
    features,         \* create_bottleneck_features: features
    labels,           \* create_bottleneck_features: labels
    hfile             \* the output file

self_vars == <<image_list, label_list, batch_size, preprocess_fn, n_batches, num_classes>>
run_vars == <<steps_done, all_outs, features, labels, hfile>>
call_vars == <<ret, fn_calls, img_loads>>
env_vars == <<dir, fault>>
vars == <<env_vars, mode, pc, error, FLAGS_batch_size, output_data_dir,
          self_vars, run_vars, call_vars>>

Blank ==
    /\ mode = "none"
    /\ pc = "start"
    /\ error = "none"
    /\ FLAGS_batch_size = FlagDefaultBatchSize
    /\ output_data_dir = FALSE
    /\ image_list = <<>>
    /\ label_list = <<>>
    /\ batch_size = 0
    /\ preprocess_fn = None
    /\ n_batches = 0
    /\ num_classes = 0
    /\ ret = NoCall
    /\ fn_calls = <<>>
    /\ img_loads = <<>>
    /\ steps_done = 0
    /\ all_outs = <<>>
    /\ features = <<>>
    /\ labels = <<>>
    /\ hfile = NoFile

\* Before the script runs, on an input directory with nothing wrong.
Init == dir \in Dirs /\ fault = NoFault /\ Blank

\* Before the script runs, on an input directory that may have a fault.
InitFail == dir \in Dirs /\ fault \in Faults /\ Blank

\* Before a direct caller builds an ImageGenerator.
InitClass == dir \in ClassDirs /\ fault = NoFault /\ Blank

\* ------------------------------------------------------------ the class

\* ImageGenerator.__init__(img_dir, fn, b), with the shuffle drawing from
\* seed; the run goes on at next_pc, or ends with the FileNotFoundError of
\* os.listdir or the ValueError of unpacking zip(*[]) into two names.
ImageGenerator_init(fn, b, seed, next_pc) ==
    LET listed == labeled_image_list(dir)
        shuffled == shuffle(listed, seed)
        columns == zip_star(shuffled)
    IN IF listdir_fails(fault.missing)
       THEN /\ pc' = "error"
            /\ error' = "FileNotFoundError"
            /\ UNCHANGED self_vars
       ELSE IF Len(columns) /= 2
       THEN /\ pc' = "error"
            /\ error' = "ValueError"
            /\ UNCHANGED self_vars
       ELSE /\ image_list' = columns[1]
            /\ label_list' = columns[2]
            /\ batch_size' = b
            /\ preprocess_fn' = fn
            /\ n_batches' = compute_n_batches(Len(columns[1]), b)
            /\ num_classes' = Len(folders)
            /\ pc' = next_pc
            /\ UNCHANGED error

\* ImageGenerator.__len__()
ImageGenerator_len == n_batches

ImageGenerator_getitem_load_all(index) ==
    LET all == load_images(image_list, preprocess_fn)
    IN [calls |-> all.calls,
        images |-> Slice(all.images, index * batch_size, (index + 1) * batch_size),
        loaded |-> all.loaded]

\* ImageGenerator.__getitem__(index): the batch array, the calls made to
\* preprocess_fn and the files decoded.
ImageGenerator_getitem(index) ==
    load_images(batch_paths(image_list, batch_size, index), preprocess_fn)

\* ImageGenerator.get_labels()
ImageGenerator_get_labels == label_list

\* ------------------------------------------------------- a direct caller

\* ImageGenerator(img_dir, preprocess_fn=fn, batch_size=b)
New(fn, b, seed) ==
    /\ pc = "start"
    /\ mode' = "direct"
    /\ ImageGenerator_init(fn, b, seed, "ready")
    /\ UNCHANGED <<env_vars, FLAGS_batch_size, output_data_dir, run_vars, call_vars>>

\* len(generator)
CallLen ==
    /\ pc = "ready"
    /\ ret' = [call |-> "__len__", value |-> ImageGenerator_len]
    /\ fn_calls' = <<>>
    /\ img_loads' = <<>>
    /\ UNCHANGED <<env_vars, mode, pc, error, FLAGS_batch_size, output_data_dir,
                   self_vars, run_vars>>

CallGetItem_consuming(index) ==
    /\ pc = "ready"
    /\ LET r == ImageGenerator_getitem(index)
       IN /\ ret' = [call |-> "__getitem__", index |-> index, value |-> r.images]
          /\ fn_calls' = r.calls
          /\ img_loads' = r.loaded
          /\ image_list' = SubSeq(image_list, Len(r.images) + 1, Len(image_list))
    /\ UNCHANGED <<env_vars, mode, pc, error, FLAGS_batch_size, output_data_dir,
                   label_list, batch_size, preprocess_fn, n_batches, num_classes,
                   run_vars>>

\* generator[index], for an index up to one past the last batch; an
\* exception of load_img reaches the caller.
CallGetItem(index) ==
    /\ pc = "ready"
    /\ LET pathnames == batch_paths(image_list, batch_size, index)
           r == ImageGenerator_getitem(index)
       IN IF load_fails(pathnames, fault.undecodable)
          THEN /\ pc' = "error"
               /\ error' = "OSError"
               /\ img_loads' = loaded_until_failure(pathnames, fault.undecodable)
               /\ UNCHANGED <<ret, fn_calls>>
          ELSE /\ ret' = [call |-> "__getitem__", index |-> index, value |-> r.images]
               /\ fn_calls' = r.calls
               /\ img_loads' = r.loaded
               /\ UNCHANGED <<pc, error>>
    /\ UNCHANGED <<env_vars, mode, FLAGS_batch_size, output_data_dir,
                   self_vars, run_vars>>

\* generator.get_labels()
CallGetLabels ==
    /\ pc = "ready"
    /\ ret' = [call |-> "get_labels", value |-> ImageGenerator_get_labels]
    /\ fn_calls' = <<>>
    /\ img_loads' = <<>>
    /\ UNCHANGED <<env_vars, mode, pc, error, FLAGS_batch_size, output_data_dir,
                   self_vars, run_vars>>

\* ------------------------------------------------------------- the script

\* tf.app.run() parses the flags and calls main, which creates the output
\* directory before it calls create_bottleneck_features.
Main(flag) ==
    /\ pc = "start"
    /\ mode' = "script"
    /\ FLAGS_batch_size' = flag
    /\ output_data_dir' = TRUE
    /\ pc' = "main"
    /\ UNCHANGED <<env_vars, error, self_vars, run_vars, call_vars>>

\* create_bottleneck_features: image_generator = ImageGenerator(images_dir,
\* resnet50.preprocess_input); an exception leaves main.
CreateGenerator(seed) ==
    /\ pc = "main"
    /\ ImageGenerator_init(preprocess_input, DefaultBatchSize, seed, "predict")
    /\ UNCHANGED <<env_vars, mode, FLAGS_batch_size, output_data_dir, run_vars, call_vars>>

\* predict_generator: one step, the next batch of the sequence through the
\* featurizer; an exception of load_img leaves predict_generator,
\* create_bottleneck_features and main.
PredictBatch ==
    /\ pc = "predict"
    /\ steps_done < ImageGenerator_len
    /\ LET pathnames == batch_paths(image_list, batch_size, steps_done)
           x == ImageGenerator_getitem(steps_done).images
       IN IF load_fails(pathnames, fault.undecodable)
          THEN /\ pc' = "error"
               /\ error' = "OSError"
               /\ UNCHANGED <<steps_done, all_outs>>
          ELSE /\ all_outs' = Append(all_outs, predict_on_batch(x))
               /\ steps_done' = steps_done + 1
               /\ UNCHANGED <<pc, error>>
    /\ UNCHANGED <<env_vars, mode, FLAGS_batch_size, output_data_dir,
                   self_vars, features, labels, hfile, call_vars>>

PredictReturn_early ==
    /\ pc = "predict"
    /\ steps_done >= ImageGenerator_len - 1
    /\ features' = concatenate(all_outs)
    /\ pc' = "labels"
    /\ UNCHANGED <<env_vars, mode, error, FLAGS_batch_size, output_data_dir,
                   self_vars, steps_done, all_outs, labels, hfile, call_vars>>

\* predict_generator returns the outputs of all steps, concatenated.
PredictReturn ==
    /\ pc = "predict"
    /\ steps_done >= ImageGenerator_len
    /\ features' = concatenate(all_outs)
    /\ pc' = "labels"
    /\ UNCHANGED <<env_vars, mode, error, FLAGS_batch_size, output_data_dir,
                   self_vars, steps_done, all_outs, labels, hfile, call_vars>>

\* labels = image_generator.get_labels()
GetLabels ==
    /\ pc = "labels"
    /\ labels' = ImageGenerator_get_labels
    /\ pc' = "open"
    /\ UNCHANGED <<env_vars, mode, error, FLAGS_batch_size, output_data_dir,
                   self_vars, steps_done, all_outs, features, hfile, call_vars>>

\* with h5py.File(output_file, "w") as hfile
OpenFile ==
    /\ pc = "open"
    /\ output_data_dir
    /\ hfile' = [NoFile EXCEPT !.exists = TRUE, !.open = TRUE]
    /\ pc' = "write_features"
    /\ UNCHANGED <<env_vars, mode, error, FLAGS_batch_size, output_data_dir,
                   self_vars, steps_done, all_outs, features, labels, call_vars>>

\* hfile.create_dataset('features', data=features)
CreateFeaturesDataset ==
    /\ pc = "write_features"
    /\ hfile' = [hfile EXCEPT !.names = Append(@, "features"), !.features = features]
    /\ pc' = "write_labels"
    /\ UNCHANGED <<env_vars, mode, error, FLAGS_batch_size, output_data_dir,
                   self_vars, steps_done, all_outs, features, labels, call_vars>>

\* hfile.create_dataset('labels', data=labels)
CreateLabelsDataset ==
    /\ pc = "write_labels"
    /\ hfile' = [hfile EXCEPT !.names = Append(@, "labels"), !.labels = labels]
    /\ pc' = "close"
    /\ UNCHANGED <<env_vars, mode, error, FLAGS_batch_size, output_data_dir,
                   self_vars, steps_done, all_outs, features, labels, call_vars>>

\* leaving the with block closes the file; the script prints "Done"
CloseFile ==
    /\ pc = "close"
    /\ hfile' = [hfile EXCEPT !.open = FALSE]
    /\ pc' = "done"
    /\ UNCHANGED <<env_vars, mode, error, FLAGS_batch_size, output_data_dir,
                   self_vars, steps_done, all_outs, features, labels, call_vars>>

\* ------------------------------------------------------------ specification

\* A run of the script.
Next ==
    \/ \E flag \in FlagValues : Main(flag)
    \/ \E seed \in Seeds : CreateGenerator(seed)
    \/ PredictBatch
    \/ PredictReturn
    \/ GetLabels
    \/ OpenFile
    \/ CreateFeaturesDataset
    \/ CreateLabelsDataset
    \/ CloseFile

Spec == Init /\ [][Next]_vars

\* A run of the script on an input directory that may have a fault.
SpecFail == InitFail /\ [][Next]_vars

\* A direct caller of the class.
NextClass ==
    \/ \E fn \in {None, preprocess_input}, b \in BatchSizes, seed \in Seeds : New(fn, b, seed)
    \/ CallLen
    \/ \E index \in 0..n_batches : CallGetItem(index)
    \/ CallGetLabels

SpecClass == InitClass /\ [][NextClass]_vars

\* ------------------------------------------------------------- properties

\* The samples listed at construction, before the shuffle.
Listed == labeled_image_list(dir)
SampleCount == Len(Listed)

\* The least k with k * b >= n.
CeilDiv(n, b) == CHOOSE k \in 0..n : k * b >= n /\ (k = 0 \/ (k - 1) * b < n)

\* The paths of the images __getitem__(k) serves.
ServedPaths(k) ==
    LET images == ImageGenerator_getitem(k).images
    IN [i \in 1..Len(images) |-> images[i].src]

RECURSIVE ConcatServed(_, _)
ConcatServed(k, last) ==
    IF k > last THEN <<>> ELSE ServedPaths(k) \o ConcatServed(k + 1, last)

CountIn(seq, e) == Cardinality({i \in 1..Len(seq) : seq[i] = e})
Range(seq) == {seq[i] : i \in 1..Len(seq)}
SameBag(s, t) ==
    /\ Len(s) = Len(t)
    /\ \A e \in Range(s) \cup Range(t) : CountIn(s, e) = CountIn(t, e)

\* The (path, label) pairs an ImageGenerator holds.
HeldPairs == [i \in 1..Len(image_list) |-> <<image_list[i], label_list[i]>>]

\* The fixed mapping of class names to numeric labels.
ClassIds ==
    [f \in ClassFolders |->
        CASE f = "Barren" -> 0 [] f = "Cultivated" -> 1 [] f = "Developed" -> 2
          [] f = "Forest" -> 3 [] f = "Herbaceous" -> 4 [] f = "Shrub" -> 5]

\* C1: for every sample count n >= 0 and batch size b > 0, once __init__
\* has been called __len__ returns ceil(n / b).
C1_BatchCountIsCeil ==
    pc /= "start" =>
        /\ pc = "ready"
        /\ ImageGenerator_len = CeilDiv(SampleCount, batch_size)

\* C2: when the class folders hold no entries, constructing an
\* ImageGenerator succeeds and __len__ returns 0.
C2_EmptyListZeroBatches ==
    (pc /= "start" /\ SampleCount = 0) =>
        /\ pc = "ready"
        /\ error = "none"
        /\ ImageGenerator_len = 0

\* C3: the path slices served by __getitem__(0) .. __getitem__(len - 1),
\* concatenated in index order, are the shuffled sample list: no gap, no
\* duplicate, same order.
C3_BatchesReconstructList ==
    pc = "ready" => ConcatServed(0, ImageGenerator_len - 1) = image_list

C3_Witness ==
    /\ pc = "ready"
    /\ ret.call = "__getitem__"
    /\ n_batches >= 2
    /\ Len(image_list) % batch_size /= 0

\* C4: the batch size the script's ImageGenerator slices by is the value of
\* the batch_size flag.
C4_FlagBatchSizeUsed ==
    (mode = "script" /\ pc \notin {"start", "main", "error"}) =>
        batch_size = FLAGS_batch_size

\* C5: after a completed run, row i of the written features is the feature
\* vector of the i-th file of the shuffled sample list, and row i of the
\* written labels is the label of that file.
C5_RowsAligned ==
    pc = "done" =>
        /\ Len(hfile.features) = Len(image_list)
        /\ Len(hfile.labels) = Len(image_list)
        /\ \A i \in 1..Len(image_list) :
            /\ hfile.features[i] = [feature_of |-> [src |-> image_list[i], pre |-> 1]]
            /\ hfile.labels[i] = ClassIds[image_list[i][1]]

C5_Witness ==
    /\ pc = "done"
    /\ n_batches >= 2
    /\ \E i, j \in 1..Len(hfile.labels) : hfile.labels[i] /= hfile.labels[j]

\* C6: after a completed run the features array, the labels array and the
\* samples listed at construction have the same number of rows.
C6_RowCountsEqual ==
    pc = "done" =>
        /\ Len(hfile.features) = SampleCount
        /\ Len(hfile.labels) = SampleCount

C6_Witness ==
    /\ pc = "done"
    /\ n_batches >= 2
    /\ SampleCount % batch_size /= 0
    /\ Len(hfile.features) = SampleCount

\* C7: whatever the shuffle draws, the (path, label) pairs held are the
\* listed pairs, each as often as listed: same count, same multiset, every
\* path with the label it was listed with.
C7_ShuffleIsPermutation ==
    pc = "ready" => SameBag(HeldPairs, Listed)

C7_Witness ==
    /\ pc = "ready"
    /\ Len(image_list) >= 3
    /\ HeldPairs /= Listed

\* C8: every batch before the last has batch_size samples; the last has
\* between 1 and batch_size, fewer than batch_size exactly when the sample
\* count is no multiple of batch_size.
C8_BatchSizes ==
    pc = "ready" =>
        \A k \in 0..(ImageGenerator_len - 1) :
            LET size == Len(ImageGenerator_getitem(k).images)
            IN IF k < ImageGenerator_len - 1
               THEN size = batch_size
               ELSE /\ size >= 1
                    /\ size <= batch_size
                    /\ (size < batch_size) <=> (Len(image_list) % batch_size /= 0)

C8_Witness ==
    /\ pc = "ready"
    /\ n_batches >= 2
    /\ ret.call = "__getitem__"
    /\ ret.index = n_batches - 1
    /\ Len(ret.value) < batch_size

C10_PreprocessOnceOnBatch ==
    (pc = "ready" /\ ret.call = "__getitem__") =>
        LET paths == Slice(image_list, ret.index * batch_size,
                           (ret.index + 1) * batch_size)
            decoded == [i \in 1..Len(paths) |-> [src |-> paths[i], pre |-> 0]]
        IN IF preprocess_fn = None
           THEN /\ fn_calls = <<>>
                /\ ret.value = decoded
           ELSE /\ fn_calls = <<decoded>>
                /\ ret.value = apply_fn(preprocess_fn, decoded)

C10_Witness ==
    /\ pc = "ready"
    /\ ret.call = "__getitem__"
    /\ preprocess_fn /= None
    /\ Len(ret.value) >= 2
    /\ Len(fn_calls) = 1

\* C11: after construction no __len__, __getitem__ or get_labels call
\* changes the sample list, the label list, their order, the batch size or
\* the batch count (nor the preprocessing function or the class count).
C11_FieldsFixed == [][pc = "ready" => UNCHANGED self_vars]_vars

C11_Witness ==
    /\ pc = "ready"
    /\ ret.call = "__getitem__"
    /\ ret.index = 1
    /\ n_batches >= 2
    /\ Len(ret.value) >= 1

\* C12: in a run of main the output directory is created first, then the
\* batches 0..len-1 go through inference one after the other, and only then
\* is the output file opened, given its features and its labels dataset, and
\* closed; once closed it is never written again.
C12_EventOrder ==
    /\ [](/\ (pc /= "start") => output_data_dir
          /\ Len(all_outs) = steps_done
          /\ steps_done <= ImageGenerator_len
          /\ hfile.exists =>
                /\ steps_done = ImageGenerator_len
                /\ pc \in {"write_features", "write_labels", "close", "done"}
          /\ hfile.open <=> pc \in {"write_features", "write_labels", "close"}
          /\ hfile.names = CASE pc \in {"close", "done"} -> <<"features", "labels">>
                             [] pc = "write_labels" -> <<"features">>
                             [] OTHER -> <<>>)
    /\ [][/\ steps_done' \in {steps_done, steps_done + 1}
          /\ hfile.exists => steps_done' = steps_done
          /\ (hfile.exists /\ ~hfile.open) => hfile' = hfile
          /\ (~hfile.exists /\ hfile'.exists) =>
                (output_data_dir /\ steps_done = ImageGenerator_len)]_vars

C12_Witness ==
    /\ pc = "done"
    /\ n_batches >= 2
    /\ steps_done = n_batches
    /\ hfile.exists
    /\ ~hfile.open
    /\ hfile.names = <<"features", "labels">>

Consumed == 1..Min(steps_done * batch_size, Len(image_list))

\* C14: a failure to list a class folder or to decode an image ends the run
\* in error, for good, with no output file: a file exists only when every
\* batch was decoded and inferred, and then it holds every row.
C14_FailureEndsRun ==
    /\ [](/\ pc = "error" => (error /= "none" /\ hfile = NoFile)
          /\ (fault.missing /= {} /\ pc \notin {"start", "main"}) =>
                (pc = "error" /\ error = "FileNotFoundError")
          /\ pc /= "error" =>
                \A i \in Consumed : image_list[i] \notin fault.undecodable
          /\ hfile.exists =>
                /\ error = "none"
                /\ steps_done = ImageGenerator_len
                /\ \A i \in 1..Len(image_list) : image_list[i] \notin fault.undecodable
          /\ pc = "done" =>
                /\ Len(hfile.features) = Len(image_list)
                /\ Len(hfile.labels) = Len(image_list))
    /\ [][pc = "error" => (pc' = "error" /\ hfile' = hfile)]_vars

C14_Witness ==
    /\ pc = "error"
    /\ error = "OSError"
    /\ steps_done = 1
    /\ Len(all_outs) = 1
    /\ hfile = NoFile

====
